---- MODULE Spec2Model ----
(***************************************************************************)
(* A model of src/src/demultiplex.rs: the PID-indexed filter table         *)
(* (Filters), the deferred changeset (FilterChangeset), the PAT and PMT    *)
(* processors and the packet dispatch loop of Demultiplex::push.           *)
(*                                                                         *)
(* Rust's Vec is 0-based and a TLA+ sequence 1-based: slot `pid` of        *)
(* filters_by_pid is element pid+1 of the sequence.                        *)
(***************************************************************************)
EXTENDS Integers, Sequences, FiniteSets, TLC

VARIABLES
    filters_by_pid,   \* Filters.filters_by_pid : Vec<Option<F>>
    updates,          \* FilterChangeset.updates : Vec<FilterChange<F>>
    constructed,      \* the FilterRequests StreamConstructor::construct received, in call order
    processor,        \* the processors driven directly, as the unit tests do: a PatProcessor,
                      \* or a PatProcessor and a PmtProcessor
    panicked,         \* whether the running call has panicked
    pc,               \* where Demultiplex::new / push stands
    buf,              \* push's argument: whole packets and the count of trailing bytes
    i,                \* push's byte offset into buf
    this_pid,         \* push's this_pid
    delivered,        \* history: the consume calls of the current push, in call order
    all_synced,       \* history: every buffer pushed so far had the sync byte at each packet
    last              \* history: the operation performed last and the state it started from;
                      \* within a push, also what the table and the constructor log were
                      \* when push was called

vars == <<filters_by_pid, updates, constructed, processor, panicked,
          pc, buf, i, this_pid, delivered, all_synced, last>>

\* the variables of Demultiplex::push, idle in the specifications of the parts
pushVars == <<pc, buf, i, this_pid, delivered, all_synced>>

PushIdle ==
    /\ pc = "idle"
    /\ buf = [packets |-> << >>, tail |-> 0]
    /\ i = 0
    /\ this_pid = 0
    /\ delivered = << >>
    /\ all_synced = TRUE

----------------------------------------------------------------------------
(* Option<T> *)

None == [some |-> FALSE]

Some(x) == [some |-> TRUE, val |-> x]

----------------------------------------------------------------------------
(* Filters<F> *)

\* the PID space: FixedBitSet::with_capacity(0x2000), 13-bit PIDs 0..8191
PID_COUNT == 8192

Pid == 0..(PID_COUNT - 1)

\* Filters::new
Filters_new == << >>

\* contains that tests the length only, not is_some
contains_len_only(t, pid) == pid < Len(t)

\* Filters::contains
contains(t, pid) == pid < Len(t) /\ t[pid + 1].some

\* Filters::get
get(t, pid) == IF pid >= Len(t) THEN None ELSE t[pid + 1]

\* insert that grows the storage by one slot too many
insert_overgrow(t, pid, filter) ==
    LET diff  == pid - Len(t)
        grown == IF diff >= 0 THEN t \o [k \in 1..(diff + 2) |-> None] ELSE t
    IN  [grown EXCEPT ![pid + 1] = Some(filter)]

\* insert as "insert if absent": an occupied slot keeps its handler
insert_keep_existing(t, pid, filter) ==
    LET diff  == pid - Len(t)
        grown == IF diff >= 0 THEN t \o [k \in 1..(diff + 1) |-> None] ELSE t
    IN  IF grown[pid + 1].some THEN grown ELSE [grown EXCEPT ![pid + 1] = Some(filter)]

\* Filters::insert
insert(t, pid, filter) ==
    LET diff  == pid - Len(t)
        grown == IF diff >= 0 THEN t \o [k \in 1..(diff + 1) |-> None] ELSE t
    IN  [grown EXCEPT ![pid + 1] = Some(filter)]

\* remove as Vec::remove: the slot is taken out and the later slots shift down
remove_shift(t, pid) ==
    IF pid < Len(t)
    THEN SubSeq(t, 1, pid) \o SubSeq(t, pid + 2, Len(t))
    ELSE t

\* Filters::remove
remove(t, pid) == IF pid < Len(t) THEN [t EXCEPT ![pid + 1] = None] ELSE t

\* Filters::pids: enumerate the slots and keep the index of each occupied one
pids(t) == SelectSeq([k \in 1..Len(t) |-> k - 1], LAMBDA pid : t[pid + 1].some)

----------------------------------------------------------------------------
(* FilterChange<F> and FilterChangeset<F> *)

Insert(pid, filter) == [change |-> "Insert", pid |-> pid, filter |-> filter]

Remove(pid) == [change |-> "Remove", pid |-> pid]

\* FilterChange::apply
FilterChange_apply(update, filters) ==
    IF update.change = "Insert"
    THEN insert(filters, update.pid, update.filter)
    ELSE remove(filters, update.pid)

\* FilterChangeset::new
FilterChangeset_new == << >>

\* FilterChangeset::insert
changeset_insert(u, pid, filter) == Append(u, Insert(pid, filter))

\* FilterChangeset::remove
changeset_remove(u, pid) == Append(u, Remove(pid))

\* FilterChangeset::is_empty
is_empty(u) == Len(u) = 0

\* the loop of FilterChangeset::apply over updates.drain(..): front to back
RECURSIVE drain_into(_, _)
drain_into(u, filters) ==
    IF u = << >> THEN filters
    ELSE drain_into(Tail(u), FilterChange_apply(Head(u), filters))

\* apply that takes the updates from the back (pop) instead of draining them
RECURSIVE drain_into_reversed(_, _)
drain_into_reversed(u, filters) ==
    IF u = << >> THEN filters
    ELSE drain_into_reversed(SubSeq(u, 1, Len(u) - 1), FilterChange_apply(u[Len(u)], filters))

\* FilterChangeset::apply: the table afterwards (the drained updates are left empty)
changeset_apply(u, filters) == drain_into(u, filters)

----------------------------------------------------------------------------
(* FilterRequest and the PacketFilter implementations.  `id` is the number of
   the constructor call that made the value: it tells one handler from the next. *)

ByPid(pid) == [req |-> "ByPid", pid |-> pid]

PmtRequest(pid, program_number) ==
    [req |-> "Pmt", pid |-> pid, program_number |-> program_number]

ByStream(stype, epid) ==
    [req |-> "ByStream", stream_type |-> stype, elementary_pid |-> epid]

\* NullPacketFilter::new
NullPacketFilter(id) == [kind |-> "Nul", id |-> id]

\* PatProcessor::new
PatProcessor_new == [current_version |-> None, filters_registered |-> {}]

\* PmtProcessor::new
PmtProcessor_new(pid, program_number) ==
    [pid |-> pid, program_number |-> program_number,
     current_version |-> None, filters_registered |-> {}]

\* psi::DedupSectionSyntaxPayloadParser::new: no version delivered yet
Dedup_new == [last_version |-> None]

\* PatPacketFilter::new
PatPacketFilter_new(id) ==
    [kind |-> "Pat", id |-> id, dedup |-> Dedup_new, proc |-> PatProcessor_new]

\* PmtPacketFilter::new
PmtPacketFilter_new(id, pid, program_number) ==
    [kind |-> "Pmt", id |-> id, dedup |-> Dedup_new,
     proc |-> PmtProcessor_new(pid, program_number)]

\* test::NullStreamConstructor::construct
construct(request, id) ==
    CASE request.req = "ByPid" /\ request.pid = 0 -> PatPacketFilter_new(id)
      [] request.req = "ByPid" /\ request.pid /= 0 -> NullPacketFilter(id)
      [] request.req = "ByStream" -> NullPacketFilter(id)
      [] request.req = "Pmt" ->
            PmtPacketFilter_new(id, request.pid, request.program_number)

----------------------------------------------------------------------------
(* PSI sections as bytes, and the PAT processor *)

\* psi::SectionCommonHeader::SIZE
SECTION_COMMON_HEADER_SIZE == 3

\* psi::TableSyntaxHeader::SIZE
TABLE_SYNTAX_HEADER_SIZE == 5

\* the CRC bytes section() cuts off the end
CRC_SIZE == 4

\* the size of one program record: ProgramIter::next splits at 4
PROGRAM_DESCRIPTOR_SIZE == 4

\* the table id new_table expects of a PAT
PAT_TABLE_ID == 0

\* the end of the range PatProcessor::new_table scans for stale PIDs: 0..0x1fff
PAT_SCAN_END == 8191

\* psi::SectionCommonHeader::new(..).table_id: the first byte
table_id_of(data) == data[1]

\* psi::TableSyntaxHeader::version: reserved:2, version:5, current_next:1 of its third byte
version_of(data) == (data[SECTION_COMMON_HEADER_SIZE + 3] \div 2) % 32

\* ProgramDescriptor::program_number
program_number(d) == d[1] * 256 + d[2]

\* ProgramDescriptor::pid
pid_of_descriptor(d) == (d[3] % 32) * 256 + d[4]

\* the `for desc in sect.programs()` loop of PatProcessor::new_table, with
\* ProgramIter::next: split_at(4) panics when 1..3 bytes are left
RECURSIVE pat_programs(_, _)
pat_programs(st, rest) ==
    IF rest = << >> THEN st
    ELSE IF Len(rest) < PROGRAM_DESCRIPTOR_SIZE THEN [st EXCEPT !.panicked = TRUE]
    ELSE LET desc   == SubSeq(rest, 1, PROGRAM_DESCRIPTOR_SIZE)
             tail   == SubSeq(rest, PROGRAM_DESCRIPTOR_SIZE + 1, Len(rest))
             req    == PmtRequest(pid_of_descriptor(desc), program_number(desc))
             filter == construct(req, Len(st.constructed) + 1)
         IN  pat_programs(
                 [st EXCEPT !.constructed = Append(@, req),
                            !.updates = changeset_insert(@, pid_of_descriptor(desc), filter),
                            !.pids_seen = @ \cup {pid_of_descriptor(desc)},
                            !.filters_registered = @ \cup {pid_of_descriptor(desc)}],
                 tail)

\* a stale scan that finds nothing
pat_stale_none(registered, pids_seen) ==
    {}

\* the PIDs the scan `for pid in 0..0x1fff` of PatProcessor::new_table finds
\* registered and not seen
pat_stale(registered, pids_seen) ==
    {pid \in registered : pid < PAT_SCAN_END /\ pid \notin pids_seen}

\* the body of that scan, over the stale PIDs in ascending order
RECURSIVE remove_stale(_, _)
remove_stale(st, stale) ==
    IF stale = {} THEN st
    ELSE LET pid == CHOOSE x \in stale : \A y \in stale : x <= y
         IN  remove_stale(
                 [st EXCEPT !.updates = changeset_remove(@, pid),
                            !.filters_registered = @ \ {pid}],
                 stale \ {pid})

\* new_table without the table id test: every section is taken for a PAT
PatProcessor_new_table_any_id(self, u, ctor, table_id, version, body) ==
    LET st0 == [filters_registered |-> self.filters_registered, pids_seen |-> {},
                updates |-> u, constructed |-> ctor, panicked |-> FALSE]
        st1 == pat_programs(st0, body)
        st2 == remove_stale(st1, pat_stale(st1.filters_registered, st1.pids_seen))
    IN  [self |-> [self EXCEPT !.filters_registered = st2.filters_registered,
                               !.current_version = Some(version)],
         updates |-> st2.updates, constructed |-> st2.constructed,
         panicked |-> st1.panicked]

\* PatProcessor::new_table on the section body `body`; the result holds the
\* processor, the changeset and the constructor log afterwards
PatProcessor_new_table(self, u, ctor, table_id, version, body) ==
    LET st0 == [filters_registered |-> self.filters_registered, pids_seen |-> {},
                updates |-> u, constructed |-> ctor, panicked |-> FALSE]
        st1 == pat_programs(st0, body)
        st2 == remove_stale(st1, pat_stale(st1.filters_registered, st1.pids_seen))
        out(st, v) == [self |-> [self EXCEPT !.filters_registered = st.filters_registered,
                                             !.current_version = v],
                       updates |-> st.updates, constructed |-> st.constructed,
                       panicked |-> st.panicked]
    IN  IF PAT_TABLE_ID /= table_id
        THEN [self |-> self, updates |-> u, constructed |-> ctor, panicked |-> FALSE]
        ELSE IF st1.panicked
             THEN out(st1, self.current_version)
             ELSE out(st2, Some(version))

\* WholeSectionSyntaxPayloadParser::section of PatProcessor: cut the headers and
\* the CRC off `data`; the slice start..end panics when data is too short
PatProcessor_section(self, u, ctor, data) ==
    LET start == SECTION_COMMON_HEADER_SIZE + TABLE_SYNTAX_HEADER_SIZE
        end   == Len(data) - CRC_SIZE
    IN  IF end < start
        THEN [self |-> self, updates |-> u, constructed |-> ctor, panicked |-> TRUE]
        ELSE PatProcessor_new_table(self, u, ctor, table_id_of(data), version_of(data),
                                    SubSeq(data, start + 1, end))

----------------------------------------------------------------------------
(* The PMT processor *)

\* the table id new_table expects of a PMT
PMT_TABLE_ID == 2

\* PmtSection::HEADER_SIZE
PMT_HEADER_SIZE == 4

\* StreamInfo::HEADER_SIZE
STREAM_INFO_HEADER_SIZE == 5

\* the end of the range PmtProcessor::new_table scans for stale PIDs: 0..0x1fff
PMT_SCAN_END == 8191

\* PmtSection::program_info_length
program_info_length(data) == (data[3] % 16) * 256 + data[4]

\* StreamInfo::stream_type
stream_type(data) == data[1]

\* elementary_pid without the five high bits of the 13
elementary_pid_low_byte(data) == data[3]

\* StreamInfo::elementary_pid
elementary_pid(data) == (data[2] % 32) * 256 + data[3]

\* StreamInfo::es_info_length
es_info_length(data) == (data[4] % 16) * 256 + data[5]

\* the `for stream_info in sect.streams()` loop of PmtProcessor::new_table, with
\* StreamInfoIter::next and StreamInfo::from_bytes: the iteration ends at the end
\* of the bytes, at a header of fewer than 5 bytes, or at an es_info_length that
\* runs past the end
RECURSIVE pmt_streams(_, _)
pmt_streams(st, rest) ==
    IF rest = << >> THEN st
    ELSE IF Len(rest) < STREAM_INFO_HEADER_SIZE THEN st
    ELSE IF STREAM_INFO_HEADER_SIZE + es_info_length(rest) > Len(rest) THEN st
    ELSE LET descriptor_end == STREAM_INFO_HEADER_SIZE + es_info_length(rest)
             req    == ByStream(stream_type(rest), elementary_pid(rest))
             filter == construct(req, Len(st.constructed) + 1)
         IN  pmt_streams(
                 [st EXCEPT !.constructed = Append(@, req),
                            !.updates = changeset_insert(@, elementary_pid(rest), filter),
                            !.pids_seen = @ \cup {elementary_pid(rest)},
                            !.filters_registered = @ \cup {elementary_pid(rest)}],
                 SubSeq(rest, descriptor_end + 1, Len(rest)))

\* the PIDs the scan `for pid in 0..0x1fff` of PmtProcessor::new_table finds
\* registered and not seen
pmt_stale(registered, pids_seen) ==
    {pid \in registered : pid < PMT_SCAN_END /\ pid \notin pids_seen}

\* PmtProcessor::new_table on the section body `body`; PmtSection::streams panics
\* when the body has no room for its header or for program_info_length
PmtProcessor_new_table(self, u, ctor, table_id, version, body) ==
    LET same == [self |-> self, updates |-> u, constructed |-> ctor, panicked |-> FALSE]
        st0  == [filters_registered |-> self.filters_registered, pids_seen |-> {},
                 updates |-> u, constructed |-> ctor, panicked |-> FALSE]
    IN  IF PMT_TABLE_ID /= table_id THEN same
        ELSE IF Len(body) < PMT_HEADER_SIZE THEN [same EXCEPT !.panicked = TRUE]
        ELSE IF PMT_HEADER_SIZE + program_info_length(body) > Len(body)
             THEN [same EXCEPT !.panicked = TRUE]
        ELSE LET st1 == pmt_streams(st0, SubSeq(body, PMT_HEADER_SIZE
                                                      + program_info_length(body) + 1,
                                                Len(body)))
                 st2 == remove_stale(st1, pmt_stale(st1.filters_registered, st1.pids_seen))
             IN  [self |-> [self EXCEPT !.filters_registered = st2.filters_registered,
                                        !.current_version = Some(version)],
                  updates |-> st2.updates, constructed |-> st2.constructed,
                  panicked |-> FALSE]

\* WholeSectionSyntaxPayloadParser::section of PmtProcessor
PmtProcessor_section(self, u, ctor, data) ==
    LET start == SECTION_COMMON_HEADER_SIZE + TABLE_SYNTAX_HEADER_SIZE
        end   == Len(data) - CRC_SIZE
    IN  IF end < start
        THEN [self |-> self, updates |-> u, constructed |-> ctor, panicked |-> TRUE]
        ELSE PmtProcessor_new_table(self, u, ctor, table_id_of(data), version_of(data),
                                    SubSeq(data, start + 1, end))

----------------------------------------------------------------------------
(* Packets, the section pipeline of a PSI filter, and PacketFilter::consume *)

\* packet::PACKET_SIZE
PACKET_SIZE == 188

\* the sync byte 0x47
SYNC_BYTE == 71

\* packet::Packet::is_sync_byte
is_sync_byte(b) == b = SYNC_BYTE

\* a packet: its first byte, its 13-bit PID, and the whole section its payload
\* completes, if it completes one
Packet(sync_byte, pid, section) ==
    [sync_byte |-> sync_byte, pid |-> pid, section |-> section]

\* the innermost stage of a PSI filter's pipeline: PatPacketFilter ends in a
\* PatProcessor, PmtPacketFilter in a PmtProcessor
section_sink(h, u, ctor, data) ==
    IF h.kind = "Pat"
    THEN PatProcessor_section(h.proc, u, ctor, data)
    ELSE PmtProcessor_section(h.proc, u, ctor, data)

\* psi::SectionPacketConsumer .. DedupSectionSyntaxPayloadParser .. down to the
\* processor's section(): a packet that completes no section delivers nothing; a
\* section of the version delivered last is suppressed; any other is delivered
\* and its version remembered
pipeline_consume(h, u, ctor, pk) ==
    IF ~pk.section.some
    THEN [self |-> h, updates |-> u, constructed |-> ctor, panicked |-> FALSE]
    ELSE IF h.dedup.last_version = Some(version_of(pk.section.val))
    THEN [self |-> h, updates |-> u, constructed |-> ctor, panicked |-> FALSE]
    ELSE LET r == section_sink(h, u, ctor, pk.section.val)
         IN  [self |-> [h EXCEPT !.proc = r.self,
                                 !.dedup.last_version = Some(version_of(pk.section.val))],
              updates |-> r.updates, constructed |-> r.constructed,
              panicked |-> r.panicked]

\* PacketFilter::consume of the packet_filter_switch! enum: NullPacketFilter,
\* PatPacketFilter or PmtPacketFilter
consume(h, u, ctor, pk) ==
    CASE h.kind = "Nul" ->
            [self |-> h, updates |-> u, constructed |-> ctor, panicked |-> FALSE]
      [] h.kind = "Pat" -> pipeline_consume(h, u, ctor, pk)
      [] h.kind = "Pmt" -> pipeline_consume(h, u, ctor, pk)

----------------------------------------------------------------------------
(* The filter table driven directly by insert and remove. *)

\* PIDs the table is exercised with: both ends of the 13-bit range and a gap
FilterPids == {0, 2, 8191}

FilterSamples == {NullPacketFilter(1), NullPacketFilter(2)}

NoOp == [op |-> "none"]

InitFilters ==
    /\ filters_by_pid = Filters_new
    /\ updates = << >>
    /\ constructed = << >>
    /\ processor = None
    /\ panicked = FALSE
    /\ PushIdle
    /\ last = NoOp

FiltersInsert ==
    \E pid \in FilterPids, f \in FilterSamples :
        /\ filters_by_pid' = insert(filters_by_pid, pid, f)
        /\ last' = [op |-> "insert", pid |-> pid, filter |-> f, before |-> filters_by_pid]
        /\ UNCHANGED <<updates, constructed, processor, panicked, pushVars>>

FiltersRemove ==
    \E pid \in FilterPids :
        /\ filters_by_pid' = remove(filters_by_pid, pid)
        /\ last' = [op |-> "remove", pid |-> pid, before |-> filters_by_pid]
        /\ UNCHANGED <<updates, constructed, processor, panicked, pushVars>>

NextFilters == FiltersInsert \/ FiltersRemove

SpecFilters == InitFilters /\ [][NextFilters]_vars

\* C5: for every PID p in 0..8191, contains(p) is true exactly when a handler is
\* stored at slot p (p is among the occupied slots the storage enumerates), and
\* get(p) returns a handler exactly when contains(p) is true, also for p at or
\* beyond the storage length.
C5_ContainsIffStored ==
    LET occupied == {pids(filters_by_pid)[k] : k \in DOMAIN pids(filters_by_pid)}
    IN  \A p \in Pid :
            /\ contains(filters_by_pid, p) <=> p \in occupied
            /\ get(filters_by_pid, p).some <=> contains(filters_by_pid, p)

\* C5 witness: an emptied slot inside the storage, an occupied one, and PIDs beyond it
C5_Witness ==
    /\ Len(filters_by_pid) = 3
    /\ contains(filters_by_pid, 2)
    /\ ~contains(filters_by_pid, 0)
    /\ last.op = "remove" /\ last.pid = 0 /\ contains(last.before, 0)

\* C6: insert(pid, h) makes h the handler at slot pid, replacing any handler that
\* was there, whether pid is below, equal to or above the storage length; every
\* other PID's slot keeps the handler (or emptiness) it had.
C6_InsertSetsSlotOnly ==
    last.op = "insert" =>
        /\ get(filters_by_pid, last.pid) = Some(last.filter)
        /\ \A q \in Pid \ {last.pid} : get(filters_by_pid, q) = get(last.before, q)

\* C6 witness: an insert that replaces another handler while a further slot is occupied
C6_Witness ==
    /\ last.op = "insert"
    /\ contains(last.before, last.pid)
    /\ get(last.before, last.pid) /= Some(last.filter)
    /\ \E q \in Pid \ {last.pid} : contains(last.before, q)

\* C7: remove(pid) leaves the table unchanged when slot pid is empty or beyond the
\* storage, otherwise it empties slot pid; either way contains(pid) is false
\* afterwards and every other PID's slot is unchanged.
C7_RemoveClearsSlotOnly ==
    last.op = "remove" =>
        /\ ~contains(last.before, last.pid) => filters_by_pid = last.before
        /\ ~contains(filters_by_pid, last.pid)
        /\ get(filters_by_pid, last.pid) = None
        /\ \A q \in Pid \ {last.pid} : get(filters_by_pid, q) = get(last.before, q)

\* C7 witness: a remove of an occupied slot below another occupied slot
C7_Witness ==
    /\ last.op = "remove"
    /\ contains(last.before, last.pid)
    /\ \E q \in Pid : q > last.pid /\ contains(last.before, q)

\* C8: the storage never shrinks; after insert(pid, _) it has at least pid+1
\* slots, exactly pid+1 when the insert had to grow it; with PIDs of 13 bits its
\* length never exceeds 8192.
C8_StorageGrowth ==
    /\ Len(filters_by_pid) <= PID_COUNT
    /\ last.op \in {"insert", "remove"} => Len(filters_by_pid) >= Len(last.before)
    /\ last.op = "insert" =>
            /\ Len(filters_by_pid) >= last.pid + 1
            /\ last.pid >= Len(last.before) => Len(filters_by_pid) = last.pid + 1

\* C8 witness: an insert of the highest PID grows a non-empty storage to 8192 slots
C8_Witness ==
    /\ last.op = "insert"
    /\ last.pid = PID_COUNT - 1
    /\ Len(last.before) \in 1..(PID_COUNT - 1)
    /\ Len(filters_by_pid) = PID_COUNT

----------------------------------------------------------------------------
(* The changeset filled by insert and remove and applied to a table. *)

\* most edits queued before an apply
MaxUpdates == 3

ChangesetPids == {0, 2}

InitChangeset ==
    /\ filters_by_pid = Filters_new
    /\ updates = FilterChangeset_new
    /\ constructed = << >>
    /\ processor = None
    /\ panicked = FALSE
    /\ PushIdle
    /\ last = NoOp

ChangesetInsert ==
    \E pid \in ChangesetPids, f \in FilterSamples :
        /\ Len(updates) < MaxUpdates
        /\ updates' = changeset_insert(updates, pid, f)
        /\ last' = NoOp
        /\ UNCHANGED <<filters_by_pid, constructed, processor, panicked, pushVars>>

ChangesetRemove ==
    \E pid \in ChangesetPids :
        /\ Len(updates) < MaxUpdates
        /\ updates' = changeset_remove(updates, pid)
        /\ last' = NoOp
        /\ UNCHANGED <<filters_by_pid, constructed, processor, panicked, pushVars>>

ChangesetApply ==
    /\ filters_by_pid' = changeset_apply(updates, filters_by_pid)
    /\ updates' = << >>
    /\ last' = [op |-> "apply", applied |-> updates, before |-> filters_by_pid]
    /\ UNCHANGED <<constructed, processor, panicked, pushVars>>

NextChangeset == ChangesetInsert \/ ChangesetRemove \/ ChangesetApply

SpecChangeset == InitChangeset /\ [][NextChangeset]_vars

\* the positions of the edits of u that name PID p
EditsOf(u, p) == {k \in DOMAIN u : u[k].pid = p}

MaxOf(S) == CHOOSE x \in S : \A y \in S : y <= x

\* C4: apply leaves the changeset empty, and for every PID the last queued edit
\* naming it decides its slot: an Insert leaves that Insert's handler there, a
\* Remove leaves it empty, and a PID no edit names keeps what it had.  Nothing is
\* coalesced or reordered: earlier edits of a PID are overridden by later ones.
C4_ApplyInOrder ==
    last.op = "apply" =>
        LET named == {last.applied[k].pid : k \in DOMAIN last.applied}
        IN  /\ is_empty(updates)
            /\ \A p \in Pid \ named : get(filters_by_pid, p) = get(last.before, p)
            /\ \A p \in named :
                   LET e == last.applied[MaxOf(EditsOf(last.applied, p))]
                   IN  IF e.change = "Insert"
                       THEN get(filters_by_pid, p) = Some(e.filter)
                       ELSE ~contains(filters_by_pid, p)

\* C4 witness: an applied changeset in which one PID has an Insert, then a Remove,
\* then an Insert of another handler
C4_Witness ==
    /\ last.op = "apply"
    /\ Len(last.applied) = 3
    /\ \E p \in ChangesetPids :
           /\ EditsOf(last.applied, p) = {1, 2, 3}
           /\ last.applied[1].change = "Insert"
           /\ last.applied[2].change = "Remove"
           /\ last.applied[3].change = "Insert"
           /\ last.applied[3].filter /= last.applied[1].filter

----------------------------------------------------------------------------
(* A PatProcessor handed sections directly, as test::pat_no_existing_program
   and test::pat_remove_existing_program do. *)

\* most program records in a section
MaxPrograms == 2

\* most constructor calls before the last section is handed over
MaxConstructed == 3

\* most edits left in the changeset when a section is handed over
MaxPending == 1

PatPids == {101, 8191}

ProgramNumbers == {1}

TableIds == {0, 2}

Versions == {0, 1}

\* one program record: program_number:16, reserved:3, pid:13
ProgramRecord(pn, pid) == <<pn \div 256, pn % 256, 224 + (pid \div 256), pid % 256>>

RECURSIVE Flatten(_)
Flatten(ss) == IF ss = << >> THEN << >> ELSE Head(ss) \o Flatten(Tail(ss))

\* the section bytes the tests write: common header, table syntax header (the
\* version in its third byte), the body, four CRC bytes
MakeSection(table_id, version, body) ==
    <<table_id, 0, 0>> \o <<13, 0, version * 2 + 1, 193, 0>> \o body \o <<0, 0, 0, 0>>

PatProgramLists ==
    UNION {[1..n -> {ProgramRecord(pn, pid) : pn \in ProgramNumbers, pid \in PatPids}] :
           n \in 0..MaxPrograms}

\* whole program records, and one body that ends inside a record
PatBodies ==
    {Flatten(l) : l \in PatProgramLists} \cup {ProgramRecord(1, 101) \o <<0, 1>>}

PatSections ==
    {MakeSection(t, v, b) : t \in TableIds, v \in Versions, b \in PatBodies}

InitPat ==
    /\ filters_by_pid = Filters_new
    /\ updates = FilterChangeset_new
    /\ constructed = << >>
    /\ processor = PatProcessor_new
    /\ panicked = FALSE
    /\ PushIdle
    /\ last = NoOp

\* processor.section(&mut ctx, &header, &table_syntax_header, &section[..])
PatSection ==
    \E data \in PatSections :
        LET r == PatProcessor_section(processor, updates, constructed, data)
        IN  /\ ~panicked
            /\ Len(constructed) < MaxConstructed
            /\ Len(updates) <= MaxPending
            /\ processor' = r.self
            /\ updates' = r.updates
            /\ constructed' = r.constructed
            /\ panicked' = r.panicked
            /\ last' = [op |-> "pat_section", data |-> data, before |-> processor,
                        pending |-> Len(updates)]
            /\ UNCHANGED <<filters_by_pid, pushVars>>

\* ctx.changeset.updates.clear()
ChangesetClear ==
    /\ ~panicked
    /\ updates /= << >>
    /\ updates' = << >>
    /\ last' = NoOp
    /\ UNCHANGED <<filters_by_pid, constructed, processor, panicked, pushVars>>

NextPat == PatSection \/ ChangesetClear

SpecPat == InitPat /\ [][NextPat]_vars

\* the body of a section: what lies between the headers and the CRC
BodyOf(data) ==
    SubSeq(data, SECTION_COMMON_HEADER_SIZE + TABLE_SYNTAX_HEADER_SIZE + 1,
           Len(data) - CRC_SIZE)

\* the PMT PIDs of the whole program records of a body, in order
AnnouncedSeq(body) ==
    [k \in 1..(Len(body) \div PROGRAM_DESCRIPTOR_SIZE) |->
        (body[4 * k - 1] % 32) * 256 + body[4 * k]]

Announced(body) == {AnnouncedSeq(body)[k] : k \in DOMAIN AnnouncedSeq(body)}

\* the edits the last section added to the changeset
NewEdits == SubSeq(updates, last.pending + 1, Len(updates))

CountOf(u, change) == Cardinality({k \in DOMAIN u : u[k].change = change})

\* the last operation handed the PAT processor a PAT section of whole records
\* that names no PID twice
PatSectionDone ==
    /\ last.op = "pat_section"
    /\ table_id_of(last.data) = PAT_TABLE_ID
    /\ Len(BodyOf(last.data)) % PROGRAM_DESCRIPTOR_SIZE = 0
    /\ Cardinality(Announced(BodyOf(last.data))) = Len(AnnouncedSeq(BodyOf(last.data)))

\* C9: a PAT processor whose registered set is S, handed a section with table_id
\* 0 announcing the PID set S', ends with registered set S' and has enqueued
\* exactly |S \ S'| Remove edits and |S'| Insert edits.
C9_PatDiff ==
    PatSectionDone =>
        LET S  == last.before.filters_registered
            S2 == Announced(BodyOf(last.data))
        IN  /\ processor.filters_registered = S2
            /\ CountOf(NewEdits, "Remove") = Cardinality(S \ S2)
            /\ CountOf(NewEdits, "Insert") = Cardinality(S2)

\* C10: a PAT section with zero programs enqueues only Remove edits, each for a
\* PID an earlier section registered, and no Insert; when PID 101 is the one
\* registered PID the first edit is Remove(101).
C10_EmptyPatOnlyRemoves ==
    (PatSectionDone /\ BodyOf(last.data) = << >>) =>
        /\ \A k \in DOMAIN NewEdits :
               /\ NewEdits[k].change = "Remove"
               /\ NewEdits[k].pid \in last.before.filters_registered
        /\ last.before.filters_registered = {101} =>
               /\ NewEdits /= << >>
               /\ NewEdits[1] = Remove(101)

\* C10 witness: PID 101 registered by an earlier section, then an empty section of
\* the next version, the changeset cleared in between
C10_Witness ==
    /\ PatSectionDone
    /\ BodyOf(last.data) = << >>
    /\ version_of(last.data) = 1
    /\ last.before.filters_registered = {101}
    /\ last.before.current_version = Some(0)
    /\ last.pending = 0
    /\ updates = <<Remove(101)>>

----------------------------------------------------------------------------
(* Demultiplex: new, then push calls, each push taken step by step. *)

\* most whole packets in one buffer
MaxPackets == 2

\* push is not called again once this many handlers have been constructed
MaxHandlers == 3

\* every packet of the buffer starts with the sync byte
AllSync(b) == \A k \in DOMAIN b.packets : is_sync_byte(b.packets[k].sync_byte)

\* buf.len()
BufLen(b) == Len(b.packets) * PACKET_SIZE + b.tail

\* Packet::new(&buf[off..off + PACKET_SIZE])
PacketAt(off) == buf.packets[(off \div PACKET_SIZE) + 1]

\* one stream record of a PMT body: stream_type:8, reserved:3, elementary_pid:13,
\* reserved:4, es_info_length:12, descriptors
StreamRecord(stype, epid, es_info) ==
    <<stype, 224 + (epid \div 256), epid % 256,
      240 + (Len(es_info) \div 256), Len(es_info) % 256>> \o es_info

\* a PMT body: reserved:3, pcr_pid:13, reserved:4, program_info_length:12,
\* descriptors, stream records
PmtBody(pcr_pid, program_info, streams) ==
    <<224 + (pcr_pid \div 256), pcr_pid % 256,
      240 + (Len(program_info) \div 256), Len(program_info) % 256>>
    \o program_info \o streams

\* the packets pushed: a PAT announcing program 1 on PID 101, the next PAT
\* version with no program, a PMT on PID 101 announcing a stream on PID 201, a
\* payload packet on PID 201, and a packet that does not start with the sync byte
PatV0Packet == Packet(SYNC_BYTE, 0, Some(MakeSection(0, 0, ProgramRecord(1, 101))))

PatV1Packet == Packet(SYNC_BYTE, 0, Some(MakeSection(0, 1, << >>)))

PmtPacket ==
    Packet(SYNC_BYTE, 101,
           Some(MakeSection(2, 0, PmtBody(123, << >>, StreamRecord(27, 201, << >>)))))

EsPacket == Packet(SYNC_BYTE, 201, None)

NoSyncPacket == Packet(0, 0, None)

PushPackets == {PatV0Packet, PatV1Packet, PmtPacket, EsPacket, NoSyncPacket}

TailSizes == {0, 187}

Buffers ==
    {[packets |-> ps, tail |-> t] :
        ps \in UNION {[1..n -> PushPackets] : n \in 0..MaxPackets}, t \in TailSizes}

\* the context is NullDemuxContext::new(NullStreamConstructor); Demultiplex::new
\* has not run yet
Init ==
    /\ filters_by_pid = Filters_new
    /\ updates = FilterChangeset_new
    /\ constructed = << >>
    /\ processor = None
    /\ panicked = FALSE
    /\ pc = "new"
    /\ buf = [packets |-> << >>, tail |-> 0]
    /\ i = 0
    /\ this_pid = 0
    /\ delivered = << >>
    /\ all_synced = TRUE
    /\ last = NoOp

\* new that constructs the PID 0 handler and does not install it
New_unregistered ==
    /\ pc = "new"
    /\ filters_by_pid' = Filters_new
    /\ constructed' = Append(constructed, ByPid(0))
    /\ pc' = "idle"
    /\ last' = [op |-> "new"]
    /\ UNCHANGED <<updates, processor, panicked, buf, i, this_pid, delivered, all_synced>>

\* Demultiplex::new
New ==
    /\ pc = "new"
    /\ filters_by_pid' = insert(Filters_new, 0, construct(ByPid(0), Len(constructed) + 1))
    /\ constructed' = Append(constructed, ByPid(0))
    /\ pc' = "idle"
    /\ last' = [op |-> "new"]
    /\ UNCHANGED <<updates, processor, panicked, buf, i, this_pid, delivered, all_synced>>

\* history: the record Push wrote when the running (or last) push was called
AtPush == IF last.op = "push" THEN last ELSE last.at_push

\* a call of push: `let mut i=0;`
Push ==
    \E b \in Buffers :
        /\ pc = "idle"
        /\ Len(constructed) < MaxHandlers
        /\ buf' = b
        /\ i' = 0
        /\ delivered' = << >>
        /\ all_synced' = (all_synced /\ AllSync(b))
        /\ pc' = "loop"
        /\ last' = [op |-> "push", pending |-> Len(updates), after |-> last.op,
                    repeat |-> (last.op = "return" /\ buf = b),
                    table0 |-> filters_by_pid, ctor0 |-> Len(constructed)]
        /\ UNCHANGED <<filters_by_pid, updates, constructed, processor, panicked, this_pid>>

\* the head of the outer loop: leave when no whole packet is left, return when
\* the packet does not start with the sync byte
LoopHead ==
    /\ pc = "loop"
    /\ IF i + PACKET_SIZE > BufLen(buf)
       THEN pc' = "idle" /\ last' = [op |-> "return", why |-> "drained", at_push |-> AtPush]
       ELSE IF is_sync_byte(PacketAt(i).sync_byte)
            THEN pc' = "lookup" /\ last' = last
            ELSE pc' = "idle" /\ last' = [op |-> "return", why |-> "desync",
                                           at_push |-> AtPush]
    /\ UNCHANGED <<filters_by_pid, updates, constructed, processor, panicked,
                   buf, i, this_pid, delivered, all_synced>>

\* this_pid = pk.pid(); a PID without a handler gets one from the constructor;
\* this_proc = get(this_pid).unwrap()
Lookup ==
    /\ pc = "lookup"
    /\ this_pid' = PacketAt(i).pid
    /\ IF ~contains(filters_by_pid, PacketAt(i).pid)
       THEN /\ constructed' = Append(constructed, ByPid(PacketAt(i).pid))
            /\ filters_by_pid' =
                   insert(filters_by_pid, PacketAt(i).pid,
                          construct(ByPid(PacketAt(i).pid), Len(constructed) + 1))
       ELSE UNCHANGED <<constructed, filters_by_pid>>
    /\ pc' = "while"
    /\ last' = [op |-> "lookup", index |-> (i \div PACKET_SIZE) + 1,
                discovered |-> ~contains(filters_by_pid, PacketAt(i).pid),
                at_push |-> AtPush]
    /\ UNCHANGED <<updates, processor, panicked, buf, i, delivered, all_synced>>

\* the inner loop entered whatever the changeset holds (a do-while)
While_unchecked ==
    /\ pc = "while"
    /\ pc' = "consume"
    /\ UNCHANGED <<filters_by_pid, updates, constructed, processor, panicked,
                   buf, i, this_pid, delivered, last, all_synced>>

\* `while ctx.filter_changeset().is_empty()`
While ==
    /\ pc = "while"
    /\ pc' = IF is_empty(updates) THEN "consume" ELSE "apply"
    /\ UNCHANGED <<filters_by_pid, updates, constructed, processor, panicked,
                   buf, i, this_pid, delivered, last, all_synced>>

\* the handler's edits written to the table at once instead of queued for apply
Consume_applying ==
    /\ pc = "consume"
    /\ LET h == get(filters_by_pid, this_pid).val
           r == consume(h, updates, constructed, PacketAt(i))
       IN  /\ filters_by_pid' =
                  changeset_apply(r.updates,
                                  [filters_by_pid EXCEPT ![this_pid + 1] = Some(r.self)])
           /\ updates' = << >>
           /\ constructed' = r.constructed
           /\ panicked' = r.panicked
           /\ pc' = IF r.panicked THEN "panicked" ELSE "advance"
           /\ delivered' = Append(delivered, [at |-> this_pid, handler |-> h.id,
                                              index |-> (i \div PACKET_SIZE) + 1])
    /\ UNCHANGED <<processor, buf, i, this_pid, last, all_synced>>

\* this_proc.consume(ctx, pk): the handler runs on the packet at i; it changes
\* itself, the changeset and the constructor, and may panic
Consume ==
    /\ pc = "consume"
    /\ LET h == get(filters_by_pid, this_pid).val
           r == consume(h, updates, constructed, PacketAt(i))
       IN  /\ filters_by_pid' = [filters_by_pid EXCEPT ![this_pid + 1] = Some(r.self)]
           /\ updates' = r.updates
           /\ constructed' = r.constructed
           /\ panicked' = r.panicked
           /\ pc' = IF r.panicked THEN "panicked" ELSE "advance"
           /\ delivered' = Append(delivered, [at |-> this_pid, handler |-> h.id,
                                              index |-> (i \div PACKET_SIZE) + 1])
    /\ UNCHANGED <<processor, buf, i, this_pid, last, all_synced>>

\* the rest of the inner loop's body: step to the next packet; break when none is
\* left, return when it does not start with the sync byte, step back and break
\* when its PID differs
Advance ==
    /\ pc = "advance"
    /\ LET next == i + PACKET_SIZE
       IN  IF next + PACKET_SIZE > BufLen(buf)
           THEN i' = next /\ pc' = "apply" /\ last' = last
           ELSE IF ~is_sync_byte(PacketAt(next).sync_byte)
           THEN i' = next /\ pc' = "idle"
                /\ last' = [op |-> "return", why |-> "desync_inner", at_push |-> AtPush]
           ELSE IF PacketAt(next).pid /= this_pid
           THEN i' = next - PACKET_SIZE /\ pc' = "apply" /\ last' = last
           ELSE i' = next /\ pc' = "while" /\ last' = last
    /\ UNCHANGED <<filters_by_pid, updates, constructed, processor, panicked,
                   buf, this_pid, delivered, all_synced>>

\* the end of the outer loop's body without the final `i += PACKET_SIZE`
Apply_stalled ==
    /\ pc = "apply"
    /\ IF ~is_empty(updates)
       THEN /\ filters_by_pid' = changeset_apply(updates, filters_by_pid)
            /\ updates' = << >>
       ELSE UNCHANGED <<filters_by_pid, updates>>
    /\ pc' = "loop"
    /\ UNCHANGED <<constructed, processor, panicked, buf, i, this_pid, delivered, last, all_synced>>

\* after the inner loop: apply a non-empty changeset, then `i += PACKET_SIZE`
Apply ==
    /\ pc = "apply"
    /\ IF ~is_empty(updates)
       THEN /\ filters_by_pid' = changeset_apply(updates, filters_by_pid)
            /\ updates' = << >>
       ELSE UNCHANGED <<filters_by_pid, updates>>
    /\ i' = i + PACKET_SIZE
    /\ pc' = "loop"
    /\ UNCHANGED <<constructed, processor, panicked, buf, this_pid, delivered, last, all_synced>>

Next == New \/ Push \/ LoopHead \/ Lookup \/ While \/ Consume \/ Advance \/ Apply

Spec == Init /\ [][Next]_vars

PushPids == {pk.pid : pk \in PushPackets}

\* the positions in buf of the packets with PID p, in input order
InputAt(p) ==
    SelectSeq([k \in 1..Len(buf.packets) |-> k], LAMBDA k : buf.packets[k].pid = p)

\* the positions in buf of the packets handed to the handler at slot p, in call order
DeliveredAt(p) ==
    LET d == SelectSeq(delivered, LAMBDA e : e.at = p)
    IN  [k \in 1..Len(d) |-> d[k].index]

\* C1: when a push has returned and every buffer pushed so far had the sync byte
\* at each packet boundary, for every PID p the packets delivered to the handler at p are the
\* input packets with PID p, in input order: none skipped, duplicated or
\* reordered, also when a handler enqueued edits and the next packet has the
\* same PID.
C1_DeliveredInOrder ==
    (pc = "idle" /\ last.op = "return" /\ all_synced) =>
        \A p \in PushPids : DeliveredAt(p) = InputAt(p)

\* C2: whenever push invokes a handler's consume the changeset is empty: the
\* edits of earlier dispatches have been applied to the table.
C2_ConsumeOnEmptyChangeset ==
    pc = "consume" => is_empty(updates)

\* C2 witness: a consume call in a push whose earlier dispatch enqueued the
\* Insert of PID 101, now in the table
C2_Witness ==
    /\ pc = "consume"
    /\ delivered /= << >>
    /\ i > 0
    /\ contains(filters_by_pid, 101)
    /\ is_empty(updates)

\* which handler occupies each slot (0: none)
Occupants(t) == [k \in DOMAIN t |-> IF t[k].some THEN t[k].val.id ELSE 0]

\* C3: a handler's consume leaves the filter table as it is (only the running
\* handler's own state changes, in its slot); the table's occupants change only
\* in Demultiplex::new, in the autodiscovery insert and in the changeset apply.
C3_TableFrame ==
    [][/\ pc = "consume" =>
            /\ Occupants(filters_by_pid') = Occupants(filters_by_pid)
            /\ \A k \in DOMAIN filters_by_pid :
                   k /= this_pid + 1 => filters_by_pid'[k] = filters_by_pid[k]
       /\ pc \notin {"new", "lookup", "apply"} =>
            \/ filters_by_pid' = filters_by_pid
            \/ Occupants(filters_by_pid') = Occupants(filters_by_pid)]_vars

\* C3 witness: a consume call has enqueued the Insert of PID 101 and the table
\* does not hold PID 101 yet
C3_Witness ==
    /\ pc = "advance"
    /\ \E k \in DOMAIN updates : updates[k].change = "Insert" /\ updates[k].pid = 101
    /\ ~contains(filters_by_pid, 101)

----------------------------------------------------------------------------
(* A PatProcessor and a PmtProcessor handed sections directly, as
   test::pat_no_existing_program and test::pmt_new_stream do. *)

\* most stream records in a PMT section
MaxStreams == 2

\* most constructor calls before the last section is handed to either processor
MaxPsiConstructed == 2

\* the stream records PMT sections are built of: the stream of the module's
\* test (type 0, PID 201, two three-byte descriptors) and an H.264 stream on the
\* last PID
StreamSamples ==
    {[stype |-> 0,  epid |-> 201,  es_info |-> <<0, 1, 0, 0, 1, 0>>],
     [stype |-> 27, epid |-> 8191, es_info |-> << >>]}

\* the PAT sections handed over beside them: no program, or program 1 on PID 101
PsiPatSections ==
    {MakeSection(t, v, b) : t \in TableIds, v \in Versions,
                            b \in {<< >>, ProgramRecord(1, 101)}}

ProgramInfos == {<< >>, <<0, 1, 0>>}

StreamLists == UNION {[1..n -> StreamSamples] : n \in 0..MaxStreams}

StreamBytes(l) ==
    Flatten([k \in 1..Len(l) |-> StreamRecord(l[k].stype, l[k].epid, l[k].es_info)])

\* a PMT body whose program_info_length field says `declared`, followed by `rest`
PmtBodyDeclaring(pcr_pid, declared, rest) ==
    <<224 + (pcr_pid \div 256), pcr_pid % 256,
      240 + (declared \div 256), declared % 256>> \o rest

\* what follows the whole stream records of a section cut short: three bytes of
\* a stream header, or a header on PID 202 whose es_info_length of 4 has no
\* byte behind it
StreamStubs == {<<27, 224, 202>>, <<27, 224, 202, 240, 4>>}

\* PMT sections with the streams they were built of; `overlong` marks those whose
\* program_info_length reaches past the end of the body, `truncated` those
\* whose stream records end in a stub
PmtInputs ==
    {[data      |-> MakeSection(t, v, PmtBody(123, info, StreamBytes(l))),
      streams   |-> l,
      overlong  |-> FALSE,
      truncated |-> FALSE] : t \in TableIds, v \in Versions, info \in ProgramInfos,
                             l \in StreamLists}
    \cup
    {[data      |-> MakeSection(t, v, PmtBodyDeclaring(123, Len(rest) + 1, rest)),
      streams   |-> << >>,
      overlong  |-> TRUE,
      truncated |-> FALSE] : t \in TableIds, v \in Versions,
                             rest \in {<< >>, StreamRecord(27, 201, << >>)}}
    \cup
    {[data      |-> MakeSection(PMT_TABLE_ID, 1, PmtBody(123, << >>, StreamBytes(l) \o stub)),
      streams   |-> l,
      overlong  |-> FALSE,
      truncated |-> TRUE] : stub \in StreamStubs,
                            l \in {x \in StreamLists : Len(x) < MaxStreams}}

InitPsi ==
    /\ filters_by_pid = Filters_new
    /\ updates = FilterChangeset_new
    /\ constructed = << >>
    /\ processor = [pat |-> PatProcessor_new, pmt |-> PmtProcessor_new(101, 1001)]
    /\ panicked = FALSE
    /\ PushIdle
    /\ last = NoOp

\* PatProcessor: processor.section(&mut ctx, &header, &table_syntax_header, &section[..])
SectionToPat ==
    \E data \in PsiPatSections :
        LET r == PatProcessor_section(processor.pat, updates, constructed, data)
        IN  /\ ~panicked
            /\ Len(constructed) < MaxPsiConstructed
            /\ is_empty(updates)
            /\ processor' = [processor EXCEPT !.pat = r.self]
            /\ updates' = r.updates
            /\ constructed' = r.constructed
            /\ panicked' = r.panicked
            /\ last' = [op |-> "section", to |-> "pat", data |-> data,
                        streams |-> << >>, overlong |-> FALSE, truncated |-> FALSE,
                        before |-> processor,
                        pending |-> Len(updates), ctor0 |-> Len(constructed)]
            /\ UNCHANGED <<filters_by_pid, pushVars>>

\* PmtProcessor: processor.section(&mut ctx, &header, &table_syntax_header, &section[..])
SectionToPmt ==
    \E inp \in PmtInputs :
        LET r == PmtProcessor_section(processor.pmt, updates, constructed, inp.data)
        IN  /\ ~panicked
            /\ Len(constructed) < MaxPsiConstructed
            /\ is_empty(updates)
            /\ processor' = [processor EXCEPT !.pmt = r.self]
            /\ updates' = r.updates
            /\ constructed' = r.constructed
            /\ panicked' = r.panicked
            /\ last' = [op |-> "section", to |-> "pmt", data |-> inp.data,
                        streams |-> inp.streams, overlong |-> inp.overlong,
                        truncated |-> inp.truncated,
                        before |-> processor,
                        pending |-> Len(updates), ctor0 |-> Len(constructed)]
            /\ UNCHANGED <<filters_by_pid, pushVars>>

NextPsi == SectionToPat \/ SectionToPmt \/ ChangesetClear

SpecPsi == InitPsi /\ [][NextPsi]_vars

\* the table id the processor the last section went to expects
ExpectedTableId == IF last.to = "pat" THEN PAT_TABLE_ID ELSE PMT_TABLE_ID

\* the last section left the changeset, the constructor and both processors alone
SectionDiscarded ==
    /\ NewEdits = << >>
    /\ Len(updates) = last.pending
    /\ Len(constructed) = last.ctor0
    /\ processor = last.before

\* C11: a section whose table_id is not 0x00 handed to the PAT processor, or not
\* 0x02 handed to the PMT processor, is discarded: no edit is enqueued, the
\* constructor is not called, current_version and filters_registered stay.
C11_WrongTableIdDiscarded ==
    (last.op = "section" /\ last.data[1] /= ExpectedTableId) =>
        /\ ~panicked
        /\ SectionDiscarded

\* C11 witness: a PAT-id section with two streams handed to a PMT processor that
\* has streams registered from a section of another version
C11_Witness ==
    /\ last.op = "section"
    /\ last.to = "pmt"
    /\ last.data[1] = PAT_TABLE_ID
    /\ Len(last.streams) = 2
    /\ last.before.pmt.filters_registered = {201}
    /\ last.before.pmt.current_version = Some(0)
    /\ version_of(last.data) = 1
    /\ processor.pmt.current_version = Some(0)

\* C12: a PMT section whose program_info_length extends beyond the section body
\* is discarded as a local error: processing returns normally, no edit is
\* enqueued and the processor's state is unchanged.
C12_OverlongProgramInfoDiscarded ==
    (last.op = "section" /\ last.to = "pmt" /\ last.data[1] = PMT_TABLE_ID
        /\ last.overlong) =>
        /\ ~panicked
        /\ SectionDiscarded

\* the PMT processor was fresh when the last section, a well-formed PMT, reached it
FreshPmtSection ==
    /\ last.op = "section"
    /\ last.to = "pmt"
    /\ last.data[1] = PMT_TABLE_ID
    /\ ~last.overlong
    /\ ~last.truncated
    /\ last.before.pmt = PmtProcessor_new(101, 1001)

\* C13: a well-formed PMT section handed to a fresh PMT processor enqueues one
\* Insert(elementary_pid, handler) per StreamInfo entry, in section order, each
\* handler from construct(ByStream(stream_type, ..)), and no Remove; with a
\* single StreamInfo the changeset holds exactly that one Insert.
C13_FreshPmtInserts ==
    FreshPmtSection =>
        /\ ~panicked
        /\ Len(NewEdits) = Len(last.streams)
        /\ Len(constructed) = last.ctor0 + Len(last.streams)
        /\ \A k \in DOMAIN last.streams :
               LET req == ByStream(last.streams[k].stype, last.streams[k].epid)
               IN  /\ constructed[last.ctor0 + k] = req
                   /\ NewEdits[k] = Insert(last.streams[k].epid,
                                           construct(req, last.ctor0 + k))
        /\ (Len(last.streams) = 1 /\ last.pending = 0) =>
               /\ Len(updates) = 1
               /\ updates[1].change = "Insert"
               /\ updates[1].pid = last.streams[1].epid

\* C13 witness: two streams of different types on different PIDs, the first with
\* descriptors, after a program-info loop that is not empty
C13_Witness ==
    /\ FreshPmtSection
    /\ Len(last.streams) = 2
    /\ last.streams[1].epid = 201
    /\ last.streams[1].es_info /= << >>
    /\ last.streams[2].epid = 8191
    /\ program_info_length(BodyOf(last.data)) = 3
    /\ Len(NewEdits) = 2

----------------------------------------------------------------------------
(* Demultiplex::new and push: what a call of push has done when it returns. *)

\* push has returned
Returned == pc = "idle" /\ last.op = "return"

\* the positions in buf of the packets handed to handlers, in call order
DeliveredIndexes == [k \in DOMAIN delivered |-> delivered[k].index]

\* C14: Demultiplex::new calls construct(ByPid(0)) exactly once and leaves a
\* table holding PID 0 and no other PID; a push of an empty buffer that follows
\* invokes no handler and no constructor, leaves the table as it was and the
\* changeset empty.
C14_NewThenEmptyPush ==
    /\ last.op = "new" =>
           /\ constructed = <<ByPid(0)>>
           /\ pids(filters_by_pid) = <<0>>
           /\ get(filters_by_pid, 0) = Some(construct(ByPid(0), 1))
    /\ (Returned /\ last.at_push.after = "new" /\ BufLen(buf) = 0) =>
           /\ delivered = << >>
           /\ constructed = <<ByPid(0)>>
           /\ filters_by_pid = last.at_push.table0
           /\ pids(filters_by_pid) = <<0>>
           /\ is_empty(updates)

\* C14 witness: the push of an empty buffer right after new has returned
C14_Witness ==
    /\ Returned
    /\ last.at_push.after = "new"
    /\ BufLen(buf) = 0
    /\ last.why = "drained"
    /\ contains(filters_by_pid, 0)

\* C15: a push of n whole packets and k < 188 trailing bytes, every packet
\* starting with the sync byte, invokes handlers n times, once for each whole
\* packet, and never dispatches the trailing bytes.
C15_WholePacketsProcessed ==
    (Returned /\ AllSync(buf)) =>
        /\ Len(delivered) = Len(buf.packets)
        /\ \A k \in DOMAIN delivered : delivered[k].index = k

\* the first packet of buf that does not start with the sync byte
FirstNonSync ==
    CHOOSE b \in DOMAIN buf.packets :
        /\ ~is_sync_byte(buf.packets[b].sync_byte)
        /\ \A j \in 1..(b - 1) : is_sync_byte(buf.packets[j].sync_byte)

\* C16: a non-sync byte at a packet boundary ends the push: no packet at or after
\* the boundary is dispatched, no constructor is called for one, and every
\* packet before the boundary has been dispatched; when the first byte of the
\* buffer is not the sync byte there is no handler invocation, no constructor
\* call and no change to the table.
C16_FramingErrorEndsPush ==
    (Returned /\ ~AllSync(buf)) =>
        /\ last.why \in {"desync", "desync_inner"}
        /\ \A k \in DOMAIN delivered : delivered[k].index < FirstNonSync
        /\ \A k \in (last.at_push.ctor0 + 1)..Len(constructed) :
               constructed[k].req = "ByPid" =>
                   \E j \in 1..(FirstNonSync - 1) : buf.packets[j].pid = constructed[k].pid
        /\ \A j \in 1..(FirstNonSync - 1) :
               \E k \in DOMAIN delivered : delivered[k].index = j
        /\ FirstNonSync = 1 =>
               /\ delivered = << >>
               /\ Len(constructed) = last.at_push.ctor0
               /\ filters_by_pid = last.at_push.table0

\* C17: when push reaches a packet whose PID has no handler it calls
\* construct(ByPid(pid)) once and installs the handler at that PID, and that
\* handler consumes the packet; a packet whose PID has a handler causes no
\* constructor call and is consumed by the handler installed.
C17_Autodiscovery ==
    [][/\ (pc = "lookup" /\ ~contains(filters_by_pid, PacketAt(i).pid)) =>
              /\ constructed' = Append(constructed, ByPid(PacketAt(i).pid))
              /\ get(filters_by_pid', PacketAt(i).pid)
                     = Some(construct(ByPid(PacketAt(i).pid), Len(constructed) + 1))
       /\ (pc = "lookup" /\ contains(filters_by_pid, PacketAt(i).pid)) =>
              /\ constructed' = constructed
              /\ filters_by_pid' = filters_by_pid
       /\ (pc = "while" /\ last.op = "lookup" /\ last.discovered
               /\ last.index = (i \div PACKET_SIZE) + 1) =>
              pc' = "consume"
       /\ pc = "consume" =>
              delivered' = Append(delivered,
                                  [at |-> PacketAt(i).pid,
                                   handler |-> get(filters_by_pid, PacketAt(i).pid).val.id,
                                   index |-> (i \div PACKET_SIZE) + 1])]_vars

\* the packet handed over by the k-th consume call of the push
DeliveredPacket(k) == buf.packets[delivered[k].index]

\* the consume calls of the push that handed a PAT section to the handler at PID 0
PatDeliveries ==
    {k \in DOMAIN delivered :
        /\ DeliveredPacket(k).pid = 0
        /\ DeliveredPacket(k).section.some
        /\ DeliveredPacket(k).section.val[1] = PAT_TABLE_ID}

\* the program numbers of the whole program records of a body, in order
ProgramNumberSeq(body) ==
    [k \in 1..(Len(body) \div PROGRAM_DESCRIPTOR_SIZE) |->
        body[4 * k - 3] * 256 + body[4 * k - 2]]

\* C18: after push has processed a PAT section on PID 0 the table contains PID 0
\* and the PMT PID of every program announced, each with the handler
\* construct(Pmt{pid, program_number}) returned; after new and a push of the one
\* PAT packet announcing program 1 on PID 101 the table is exactly {0, 101}.
C18_PatProgramsInstalled ==
    (Returned /\ PatDeliveries /= {}) =>
        LET k    == CHOOSE x \in PatDeliveries : \A y \in PatDeliveries : y <= x
            body == BodyOf(DeliveredPacket(k).section.val)
        IN  /\ contains(filters_by_pid, 0)
            /\ \A n \in DOMAIN AnnouncedSeq(body) :
                   LET h == get(filters_by_pid, AnnouncedSeq(body)[n])
                   IN  /\ h.some
                       /\ h.val.kind = "Pmt"
                       /\ h.val.proc.pid = AnnouncedSeq(body)[n]
                       /\ h.val.proc.program_number = ProgramNumberSeq(body)[n]
            /\ (last.at_push.after = "new" /\ buf.packets = <<PatV0Packet>>) =>
                   pids(filters_by_pid) = <<0, 101>>

\* the one consume call of the push so far handed the PAT handler, which had PMT
\* PID 101 registered from a PAT of another version, a PAT with no program, and
\* push has left the inner loop of that packet
EmptyPatDispatched ==
    /\ pc = "loop" \/ Returned
    /\ Len(delivered) = 1
    /\ DeliveredPacket(1).pid = 0
    /\ DeliveredPacket(1).section.some
    /\ DeliveredPacket(1).section.val[1] = PAT_TABLE_ID
    /\ BodyOf(DeliveredPacket(1).section.val) = << >>
    /\ LET pat == get(AtPush.table0, 0).val
       IN  /\ pat.kind = "Pat"
           /\ pat.proc.filters_registered = {101}
           /\ pat.dedup.last_version.some
           /\ pat.dedup.last_version.val /= version_of(DeliveredPacket(1).section.val)
    /\ contains(AtPush.table0, 101)

\* C19: push has processed a PAT announcing PMT PID 101 and later a PAT of a
\* different version with no program; once the second PAT's packet has been
\* dispatched and push has moved on from it, the table no longer contains PID
\* 101, and is exactly {0} when it was {0, 101}.
C19_EmptyPatRemovesProgram ==
    EmptyPatDispatched =>
        /\ ~contains(filters_by_pid, 101)
        /\ pids(AtPush.table0) = <<0, 101>> => pids(filters_by_pid) = <<0>>

\* a push of one PAT packet on PID 0 has returned, and it was called with the
\* buffer of the push before it
SamePatPushedAgain ==
    /\ Returned
    /\ last.at_push.repeat
    /\ Len(buf.packets) = 1
    /\ buf.packets[1].pid = 0
    /\ is_sync_byte(buf.packets[1].sync_byte)
    /\ buf.packets[1].section.some
    /\ buf.packets[1].section.val[1] = PAT_TABLE_ID

\* C20: pushing the same PAT section a second time enqueues no edit, calls the
\* constructor for no program and leaves the table and the PAT processor's
\* registered set as they were after the first push.
C20_RepeatedPatSuppressed ==
    SamePatPushedAgain =>
        /\ is_empty(updates)
        /\ Len(constructed) = last.at_push.ctor0
        /\ Occupants(filters_by_pid) = Occupants(last.at_push.table0)
        /\ get(filters_by_pid, 0).val.proc = get(last.at_push.table0, 0).val.proc

----------------------------------------------------------------------------
(* Sections that end early, handed to the processors directly. *)

\* the PIDs of the stream records the last section was built of, in order
ParsedPids == [k \in DOMAIN last.streams |-> last.streams[k].epid]

\* the PIDs of the edits of one kind among those the last section added, in order
EditPids(change) ==
    LET e == SelectSeq(NewEdits, LAMBDA x : x.change = change)
    IN  [k \in DOMAIN e |-> e[k].pid]

\* C22: when the stream-info iteration of a PMT section stops early (fewer than 5
\* bytes left for a header, or an es_info_length past the end of the body) the
\* PMT processor has enqueued one Insert for every StreamInfo before the
\* stopping point and none for anything after it, and the diff treats only
\* those PIDs as announced: every PID registered before that is not among them
\* gets a Remove.
C22_TruncatedPmtStreams ==
    (last.op = "section" /\ last.to = "pmt" /\ last.data[1] = PMT_TABLE_ID
        /\ last.truncated) =>
        LET parsed == {ParsedPids[k] : k \in DOMAIN ParsedPids}
            removed == EditPids("Remove")
        IN  /\ ~panicked
            /\ EditPids("Insert") = ParsedPids
            /\ {removed[k] : k \in DOMAIN removed}
                   = last.before.pmt.filters_registered \ parsed
            /\ processor.pmt.filters_registered = parsed

\* C23: a PAT section whose body ends 1 to 3 bytes after the last whole program
\* record is a local error: the PAT processor returns normally and its state is
\* one a section could have left.
C23_PartialProgramRecordLocal ==
    (last.op = "pat_section" /\ last.data[1] = PAT_TABLE_ID
        /\ Len(BodyOf(last.data)) % PROGRAM_DESCRIPTOR_SIZE /= 0) =>
        /\ ~panicked
        /\ processor.current_version = Some(version_of(last.data))
           \/ processor = last.before

----------------------------------------------------------------------------
(* Demultiplex::push as a loop: how it ends, and what it leaves behind. *)

\* a step of a running push call; push is synchronous, so a call that has
\* started keeps taking its next step
PushStep == LoopHead \/ Lookup \/ While \/ Consume \/ Advance \/ Apply

\* the packets of the termination runs: one whose handler enqueues an edit, one
\* on another PID, one without the sync byte
LivePackets == {PatV0Packet, EsPacket, NoSyncPacket}

\* a call of push with a buffer of such packets
PushLive ==
    \E b \in {x \in Buffers : \A k \in DOMAIN x.packets : x.packets[k] \in LivePackets} :
        /\ pc = "idle"
        /\ Len(constructed) < MaxHandlers
        /\ buf' = b
        /\ i' = 0
        /\ delivered' = << >>
        /\ all_synced' = (all_synced /\ AllSync(b))
        /\ pc' = "loop"
        /\ last' = [op |-> "push", pending |-> Len(updates), after |-> last.op,
                    repeat |-> (last.op = "return" /\ buf = b),
                    table0 |-> filters_by_pid, ctor0 |-> Len(constructed)]
        /\ UNCHANGED <<filters_by_pid, updates, constructed, processor, panicked, this_pid>>

NextLive == New \/ PushLive \/ PushStep

SpecLive == Init /\ [][NextLive]_vars /\ WF_vars(PushStep)

\* C21: every push call terminates; it returns only when fewer than 188 bytes
\* remain past the current position or when the byte at the current packet
\* boundary is not the sync byte; and each iteration of the outer loop ends
\* with the position past the packet the iteration started at.
C21_PushTerminates ==
    /\ [](Returned =>
            \/ last.why = "drained" /\ i + PACKET_SIZE > BufLen(buf)
            \/ /\ last.why \in {"desync", "desync_inner"}
               /\ i + PACKET_SIZE <= BufLen(buf)
               /\ ~is_sync_byte(PacketAt(i).sync_byte))
    /\ [][pc = "apply" => (pc' = "loop" /\ i' > (last.index - 1) * PACKET_SIZE)]_vars
    /\ (pc = "loop" ~> pc \in {"idle", "panicked"})

\* C21 witness: a push of two packets and 187 more bytes has returned with the
\* buffer drained after dispatching both packets
C21_Witness ==
    /\ Returned
    /\ last.why = "drained"
    /\ buf.tail = 187
    /\ i >= 2 * PACKET_SIZE
    /\ Len(delivered) = 2

\* C25: a push entered with an empty changeset returns with an empty changeset
\* on every exit path: no edit a handler enqueued during the call is left
\* unapplied.
C25_ChangesetEmptyAtReturn ==
    (Returned /\ last.at_push.pending = 0) => is_empty(updates)

----------------------------------------------------------------------------
(* A whole call of push as one function of the dispatcher's state, computed
   as the loop computes it, to compare calls on different buffers. *)

\* the dispatcher's state between calls, with the handler invocations so far
RunState(table, queue, ctor) ==
    [table |-> table, queue |-> queue, ctor |-> ctor, calls |-> << >>, dead |-> FALSE]

\* Packet::new(&b[off..off + PACKET_SIZE])
PacketOf(b, off) == b.packets[(off \div PACKET_SIZE) + 1]

\* the inner loop from the packet at off, for the handler at pid; `returned`
\* says that the call ended inside the loop
RECURSIVE RunInner(_, _, _, _)
RunInner(st, b, off, pid) ==
    IF ~is_empty(st.queue)
    THEN [st |-> st, off |-> off, returned |-> FALSE]
    ELSE LET h == get(st.table, pid).val
             r == consume(h, st.queue, st.ctor, PacketOf(b, off))
             st1 == [table |-> [st.table EXCEPT ![pid + 1] = Some(r.self)],
                     queue |-> r.updates,
                     ctor  |-> r.constructed,
                     calls |-> Append(st.calls, [handler |-> h.id,
                                                 packet |-> PacketOf(b, off)]),
                     dead  |-> r.panicked]
             next == off + PACKET_SIZE
         IN  IF r.panicked
             THEN [st |-> st1, off |-> off, returned |-> TRUE]
             ELSE IF next + PACKET_SIZE > BufLen(b)
             THEN [st |-> st1, off |-> next, returned |-> FALSE]
             ELSE IF ~is_sync_byte(PacketOf(b, next).sync_byte)
             THEN [st |-> st1, off |-> next, returned |-> TRUE]
             ELSE IF PacketOf(b, next).pid /= pid
             THEN [st |-> st1, off |-> next - PACKET_SIZE, returned |-> FALSE]
             ELSE RunInner(st1, b, next, pid)

\* the outer loop from position off
RECURSIVE RunOuter(_, _, _)
RunOuter(st, b, off) ==
    IF off + PACKET_SIZE > BufLen(b)
    THEN st
    ELSE IF ~is_sync_byte(PacketOf(b, off).sync_byte)
    THEN st
    ELSE LET pid == PacketOf(b, off).pid
             st1 == IF ~contains(st.table, pid)
                    THEN [st EXCEPT
                             !.ctor = Append(st.ctor, ByPid(pid)),
                             !.table = insert(st.table, pid,
                                              construct(ByPid(pid), Len(st.ctor) + 1))]
                    ELSE st
             r == RunInner(st1, b, off, pid)
             st2 == IF ~is_empty(r.st.queue)
                    THEN [r.st EXCEPT !.table = changeset_apply(r.st.queue, r.st.table),
                                      !.queue = << >>]
                    ELSE r.st
         IN  IF r.returned THEN r.st ELSE RunOuter(st2, b, r.off + PACKET_SIZE)

\* Demultiplex::push(ctx, b)
RunPush(st, b) == IF st.dead THEN st ELSE RunOuter(st, b, 0)

\* the step-by-step push and the function agree: a push entered with an empty
\* changeset has left what RunPush computes from the state it was entered in
RunPushAgreesWithSteps ==
    (Returned /\ last.at_push.pending = 0) =>
        LET r == RunPush(RunState(last.at_push.table0, << >>,
                                  SubSeq(constructed, 1, last.at_push.ctor0)), buf)
        IN  /\ r.table = filters_by_pid
            /\ r.queue = updates
            /\ r.ctor = constructed
            /\ Len(r.calls) = Len(delivered)
            /\ \A k \in DOMAIN delivered :
                   /\ r.calls[k].handler = delivered[k].handler
                   /\ r.calls[k].packet = buf.packets[delivered[k].index]

\* buffers of whole packets that all start with the sync byte
WholeBuffers == {b \in Buffers : b.tail = 0 /\ b.packets /= << >> /\ AllSync(b)}

Joined(a, b) == [packets |-> a.packets \o b.packets, tail |-> 0]

\* C26: for buffers A and B of whole sync-valid packets, push(A) followed by
\* push(B) makes the same handler invocations (handler, packet) and the same
\* constructor calls, and leaves the same filter table, as one push of A
\* followed by B; checked from every state the dispatcher is in between calls.
C26_SplitAtPacketBoundary ==
    (pc = "idle" /\ ~panicked) =>
        \A a \in WholeBuffers, b \in WholeBuffers :
            LET st == RunState(filters_by_pid, updates, constructed)
                split == RunPush(RunPush(st, a), b)
                whole == RunPush(st, Joined(a, b))
            IN  /\ split.calls = whole.calls
                /\ split.ctor = whole.ctor
                /\ split.table = whole.table

----------------------------------------------------------------------------
(* Table lifecycles: new, then pushes of one table packet each. *)

\* push is not called again once this many handlers have been constructed
MaxTableHandlers == 4

\* a PAT (version 2) announcing program 1 on PMT PID 0
PatZeroPacket == Packet(SYNC_BYTE, 0, Some(MakeSection(0, 2, ProgramRecord(1, 0))))

\* a PMT (version 1) on PID 101 announcing a stream on PID 0
PmtZeroPacket ==
    Packet(SYNC_BYTE, 101,
           Some(MakeSection(2, 1, PmtBody(123, << >>, StreamRecord(27, 0, << >>)))))

TablePackets == {PatV0Packet, PatV1Packet, PmtPacket, PatZeroPacket, PmtZeroPacket}

\* a call of push with a buffer of one table packet
PushTable ==
    \E pk \in TablePackets :
        /\ pc = "idle"
        /\ Len(constructed) < MaxTableHandlers
        /\ buf' = [packets |-> <<pk>>, tail |-> 0]
        /\ i' = 0
        /\ delivered' = << >>
        /\ all_synced' = all_synced
        /\ pc' = "loop"
        /\ last' = [op |-> "push", pending |-> Len(updates), after |-> last.op,
                    repeat |-> (last.op = "return" /\ buf.packets = <<pk>>),
                    table0 |-> filters_by_pid, ctor0 |-> Len(constructed)]
        /\ UNCHANGED <<filters_by_pid, updates, constructed, processor, panicked, this_pid>>

NextTables == New \/ PushTable \/ LoopHead \/ Lookup \/ While \/ Consume \/ Advance \/ Apply

SpecTables == Init /\ [][NextTables]_vars

\* the PMT PIDs the PAT handler at PID 0 of table t has registered
PatRegistered(t) == get(t, 0).val.proc.filters_registered

\* a push has returned in which the PAT handler at PID 0 took a table that
\* dropped PMT PID p, which it had registered when the push was called
PatDropped(p) ==
    /\ Returned
    /\ get(last.at_push.table0, 0).val.kind = "Pat"
    /\ get(filters_by_pid, 0).some
    /\ get(filters_by_pid, 0).val.kind = "Pat"
    /\ p \in PatRegistered(last.at_push.table0) \ PatRegistered(filters_by_pid)

\* C24: when a newer PAT no longer lists a program, after the push that
\* processed it the filter table holds neither the program's PMT handler nor
\* any elementary-stream handler that PMT handler had inserted.
C24_DroppedProgramHandlersGone ==
    \A p \in Pid \ {0} :
        PatDropped(p) =>
            /\ ~contains(filters_by_pid, p)
            /\ LET old == get(last.at_push.table0, p)
               IN  (old.some /\ old.val.kind = "Pmt") =>
                       \A e \in old.val.proc.filters_registered :
                           ~contains(filters_by_pid, e)

\* C27: once new has run, PID 0 holds the handler new installed there (the
\* first handler constructed, a PAT handler), whatever the tables announce.
C27_PatHandlerStaysAtPidZero ==
    pc /= "new" =>
        /\ get(filters_by_pid, 0).some
        /\ get(filters_by_pid, 0).val.id = 1
        /\ get(filters_by_pid, 0).val.kind = "Pat"

====
